---- MODULE Spec2Model ----
(***************************************************************************)
(* A model of the A1-notation codec and the grid reconciler of gsheet_api  *)
(* (src/src/utils.rs).  Strings that the code inspects character by        *)
(* character (A1 references, column letters, addresses) are sequences of   *)
(* one-character strings; strings the code only copies (cell values,       *)
(* sheet ids and titles) are opaque TLA+ strings.  usize is an unsigned    *)
(* integer of UsizeBits bits; an overflowing + or * panics when the build  *)
(* has overflow checks and wraps otherwise.                                *)
(***************************************************************************)
EXTENDS Integers, Sequences, FiniteSets, TLC

VARIABLES
    overflow_checks,  \* build profile: TRUE = arithmetic overflow panics, FALSE = wraps
    target,           \* the function the caller invokes
    pc,               \* "call" before the invocation, "returned" after it
    a1,               \* &str argument of the codec functions
    col_index,        \* usize argument of col_index_to_a1
    sheet_id,         \* &str argument of the reconciler functions
    sheet_title,      \* &str argument of the reconciler functions
    value_range,      \* &ValueRange argument of the reconciler functions
    result,           \* the value returned (or the panic raised) by the call
    now,              \* Utc::now(), in seconds
    auth_client,      \* the AuthProvider shared behind Arc<Mutex<..>>
    auth_mutex,       \* the execute call holding the auth mutex, or Unlocked
    calls,            \* the execute calls in progress, one record per call
    token_endpoint,   \* the requests the token endpoint has answered
    other             \* a second caller of the same function on the same arguments

vars == <<overflow_checks, target, pc, a1, col_index, sheet_id, sheet_title,
          value_range, result, now, auth_client, auth_mutex, calls,
          token_endpoint, other>>

----------------------------------------------------------------------------
(* Bounds of the model *)

\* width of usize in the model (64 on the real targets)
UsizeBits == 10
\* longest string handed to parse_a1_cell / split_sheet_range
MaxLen == 4
\* largest column index handed to col_index_to_a1
MaxColIndex == 1000
\* columns and rows of the cell references that make up the range inputs
MaxCol == 3
MaxRow == 2
\* shape of the value arrays handed to the reconciler
MaxGridRows == 2
MaxRowLen == 2

RECURSIVE Pow(_, _)
Pow(b, e) == IF e = 0 THEN 1 ELSE b * Pow(b, e - 1)

\* usize values are 0 .. Modulus - 1
Modulus == Pow(2, UsizeBits)

----------------------------------------------------------------------------
(* Result<T, GSheetError>, a panic, and Option<T> *)

Ok(v) == [tag |-> "Ok", val |-> v, msg |-> ""]
Err(m) == [tag |-> "Err", val |-> <<>>, msg |-> m]
Panic == [tag |-> "Panic", val |-> <<>>, msg |-> "attempt to compute with overflow"]
NoResult == [tag |-> "None", val |-> <<>>, msg |-> ""]

None == <<>>
Some(v) == <<v>>

----------------------------------------------------------------------------
(* char and &str helpers of the standard library, as the code uses them *)

UpperCase == <<"A", "B", "C", "D", "E", "F", "G", "H", "I", "J", "K", "L", "M",
               "N", "O", "P", "Q", "R", "S", "T", "U", "V", "W", "X", "Y", "Z">>
LowerCase == <<"a", "b", "c", "d", "e", "f", "g", "h", "i", "j", "k", "l", "m",
               "n", "o", "p", "q", "r", "s", "t", "u", "v", "w", "x", "y", "z">>
Digits == <<"0", "1", "2", "3", "4", "5", "6", "7", "8", "9">>
WhiteSpace == {" "}

Range(f) == {f[i] : i \in DOMAIN f}

AsciiUpperCase == Range(UpperCase)
AsciiLowerCase == Range(LowerCase)
AsciiDigits == Range(Digits)

is_ascii_alphabetic(c) == c \in AsciiUpperCase \/ c \in AsciiLowerCase

is_ascii_digit(c) == c \in AsciiDigits

to_ascii_uppercase(c) ==
    IF c \in AsciiLowerCase
    THEN UpperCase[CHOOSE i \in 1..26 : LowerCase[i] = c]
    ELSE c

\* letter_rank without the + 1: A counts as the digit 0
letter_rank_zero_based(c) ==
    (CHOOSE i \in 1..26 : UpperCase[i] = to_ascii_uppercase(c)) - 1

\* c.to_ascii_uppercase() as usize - 'A' as usize + 1, for a letter c
letter_rank(c) == CHOOSE i \in 1..26 : UpperCase[i] = to_ascii_uppercase(c)

\* c as usize - '0' as usize, for a digit c
digit_value(c) == (CHOOSE i \in 1..10 : Digits[i] = c) - 1

RECURSIVE trim_start(_)
trim_start(s) ==
    IF s # <<>> /\ Head(s) \in WhiteSpace THEN trim_start(Tail(s)) ELSE s

RECURSIVE trim_end(_)
trim_end(s) ==
    IF s # <<>> /\ s[Len(s)] \in WhiteSpace
    THEN trim_end(SubSeq(s, 1, Len(s) - 1))
    ELSE s

trim(s) == trim_end(trim_start(s))

contains(s, c) == \E i \in 1..Len(s) : s[i] = c

\* str::split(c).collect(): the pieces between the occurrences of c
RECURSIVE split_from(_, _, _, _)
split_from(s, c, k, piece) ==
    IF k > Len(s) THEN <<piece>>
    ELSE IF s[k] = c THEN <<piece>> \o split_from(s, c, k + 1, <<>>)
    ELSE split_from(s, c, k + 1, Append(piece, s[k]))

split(s, c) == split_from(s, c, 1, <<>>)

\* format!("{}", n) for a usize n
RECURSIVE to_decimal(_)
to_decimal(n) ==
    IF n < 10 THEN <<Digits[n + 1]>>
    ELSE to_decimal(n \div 10) \o <<Digits[(n % 10) + 1]>>

----------------------------------------------------------------------------
(* parse_a1_cell *)

\* the for loop over a1.chars(), from character k on, and the final test
RECURSIVE parse_a1_cell_loop(_, _, _, _, _, _)
parse_a1_cell_loop(s, k, col, row, col_part, oc) ==
    IF k > Len(s)
    THEN IF col > 0 /\ row > 0
         THEN Ok(<<col, row>>)
         ELSE Err("Invalid A1 notation")
    ELSE LET c == s[k] IN
         IF is_ascii_alphabetic(c) /\ col_part
         THEN LET next == col * 26 + letter_rank(c) IN
              IF next >= Modulus /\ oc
              THEN Panic
              ELSE parse_a1_cell_loop(s, k + 1, next % Modulus, row, col_part, oc)
         ELSE IF is_ascii_digit(c)
         THEN LET next == row * 10 + digit_value(c) IN
              IF next >= Modulus /\ oc
              THEN Panic
              ELSE parse_a1_cell_loop(s, k + 1, col, next % Modulus, FALSE, oc)
         ELSE Err("Invalid character")

\* parse_a1_cell whose final test is col > 0 || row > 0
RECURSIVE either_index_loop(_, _, _, _, _, _)
either_index_loop(s, k, col, row, col_part, oc) ==
    IF k > Len(s)
    THEN IF col > 0 \/ row > 0
         THEN Ok(<<col, row>>)
         ELSE Err("Invalid A1 notation")
    ELSE LET c == s[k] IN
         IF is_ascii_alphabetic(c) /\ col_part
         THEN LET next == col * 26 + letter_rank(c) IN
              IF next >= Modulus /\ oc
              THEN Panic
              ELSE either_index_loop(s, k + 1, next % Modulus, row, col_part, oc)
         ELSE IF is_ascii_digit(c)
         THEN LET next == row * 10 + digit_value(c) IN
              IF next >= Modulus /\ oc
              THEN Panic
              ELSE either_index_loop(s, k + 1, col, next % Modulus, FALSE, oc)
         ELSE Err("Invalid character")

parse_a1_cell_either_index(s, oc) == either_index_loop(s, 1, 0, 0, TRUE, oc)

\* parse_a1_cell without the col_part flag: a letter counts wherever it stands
RECURSIVE letters_anywhere_loop(_, _, _, _, _)
letters_anywhere_loop(s, k, col, row, oc) ==
    IF k > Len(s)
    THEN IF col > 0 /\ row > 0
         THEN Ok(<<col, row>>)
         ELSE Err("Invalid A1 notation")
    ELSE LET c == s[k] IN
         IF is_ascii_alphabetic(c)
         THEN LET next == col * 26 + letter_rank(c) IN
              IF next >= Modulus /\ oc
              THEN Panic
              ELSE letters_anywhere_loop(s, k + 1, next % Modulus, row, oc)
         ELSE IF is_ascii_digit(c)
         THEN LET next == row * 10 + digit_value(c) IN
              IF next >= Modulus /\ oc
              THEN Panic
              ELSE letters_anywhere_loop(s, k + 1, col, next % Modulus, oc)
         ELSE Err("Invalid character")

parse_a1_cell_letters_anywhere(s, oc) == letters_anywhere_loop(s, 1, 0, 0, oc)

\* parse_a1_cell returning Ok((row, col))
parse_a1_cell_swapped(s, oc) ==
    LET r == parse_a1_cell_loop(s, 1, 0, 0, TRUE, oc) IN
    IF r.tag = "Ok" THEN Ok(<<r.val[2], r.val[1]>>) ELSE r

parse_a1_cell(s, oc) == parse_a1_cell_loop(s, 1, 0, 0, TRUE, oc)

----------------------------------------------------------------------------
(* col_index_to_a1 *)

\* the while loop: col_str.insert(0, letter); col_index = (col_index - 1) / 26
RECURSIVE col_index_to_a1_loop(_, _)
col_index_to_a1_loop(n, col_str) ==
    IF n > 0
    THEN LET rem == (n - 1) % 26 IN
         col_index_to_a1_loop((n - 1) \div 26, <<UpperCase[rem + 1]>> \o col_str)
    ELSE col_str

\* col_index_to_a1 as a plain base-26 conversion: col_index % 26, col_index / 26
RECURSIVE zero_based_loop(_, _)
zero_based_loop(n, col_str) ==
    IF n > 0
    THEN zero_based_loop(n \div 26, <<UpperCase[(n % 26) + 1]>> \o col_str)
    ELSE col_str

col_index_to_a1_zero_based(n) ==
    IF n = 0
    THEN Err("Invalid column index")
    ELSE Ok(zero_based_loop(n, <<>>))

col_index_to_a1(n) ==
    IF n = 0
    THEN Err("Invalid column index")
    ELSE Ok(col_index_to_a1_loop(n, <<>>))

----------------------------------------------------------------------------
(* split_sheet_range and a1_to_grid_range *)

\* split_sheet_range that takes the first two pieces however many there are
split_sheet_range_first_two(s) ==
    LET range_part == trim(s) IN
    IF contains(range_part, "!")
    THEN LET parts == split(range_part, "!") IN Ok(<<parts[1], parts[2]>>)
    ELSE Err("Invalid range")

split_sheet_range(s) ==
    LET range_part == trim(s) IN
    IF contains(range_part, "!")
    THEN LET parts == split(range_part, "!") IN
         IF Len(parts) # 2
         THEN Err("Invalid range")
         ELSE Ok(<<parts[1], parts[2]>>)
    ELSE Err("Invalid range")

\* GridRange with the row and column indices exchanged
GridRange_transposed(sr, er, sc, ec) ==
    [sheet_id |-> None,
     start_row_index |-> Some(sc),
     end_row_index |-> Some(ec),
     start_column_index |-> Some(sr),
     end_column_index |-> Some(er)]

GridRange(sr, er, sc, ec) ==
    [sheet_id |-> None,
     start_row_index |-> Some(sr),
     end_row_index |-> Some(er),
     start_column_index |-> Some(sc),
     end_column_index |-> Some(ec)]

\* grid_range_of_part that takes the first two pieces however many there are
grid_range_of_part_first_two(range_part, oc) ==
    LET range_parts == split(range_part, ":")
        start == range_parts[1]
        end == IF Len(range_parts) = 1 THEN range_parts[1] ELSE range_parts[2]
        s == parse_a1_cell(start, oc)
    IN  IF s.tag # "Ok" THEN s
        ELSE LET e == parse_a1_cell(end, oc) IN
             IF e.tag # "Ok" THEN e
             ELSE Ok(GridRange(s.val[2], e.val[2], s.val[1], e.val[1]))

\* the part of a1_to_grid_range after the sheet name has been removed
grid_range_of_part(range_part, oc) ==
    LET range_parts == split(range_part, ":") IN
    IF Len(range_parts) > 2
    THEN Err("Invalid range")
    ELSE LET start == range_parts[1]
             end == IF Len(range_parts) = 1 THEN range_parts[1] ELSE range_parts[2]
             s == parse_a1_cell(start, oc)
         IN  IF s.tag # "Ok" THEN s
             ELSE LET e == parse_a1_cell(end, oc) IN
                  IF e.tag # "Ok" THEN e
                  ELSE Ok(GridRange(s.val[2], e.val[2], s.val[1], e.val[1]))

a1_to_grid_range(s, oc) ==
    LET range_part == trim(s) IN
    IF contains(range_part, "!")
    THEN LET sp == split_sheet_range(range_part) IN
         IF sp.tag # "Ok" THEN sp
         ELSE grid_range_of_part(sp.val[2], oc)
    ELSE grid_range_of_part(range_part, oc)

----------------------------------------------------------------------------
(* value_range_to_cells *)

\* a Cell whose two indices are exchanged
MakeCell_exchanged(sid, title, address, value, col, ci, ri) ==
    [sheet_id |-> sid,
     sheet_title |-> title,
     address |-> address,
     value |-> value,
     col |-> col,
     col_index |-> ri,
     row_index |-> ci]

MakeCell(sid, title, address, value, col, ci, ri) ==
    [sheet_id |-> sid,
     sheet_title |-> title,
     address |-> address,
     value |-> value,
     col |-> col,
     col_index |-> ci,
     row_index |-> ri]

\* value_range.values.as_ref().unwrap_or(&vec![vec![]])
all_values_of(vr) == IF vr.values = None THEN <<<<>>>> ELSE vr.values[1]

\* cell_value with the two offsets exchanged: all_values.get(j) ... r.get(i)
cell_value_transposed(all_values, i, j) ==
    IF j + 1 <= Len(all_values)
    THEN IF i + 1 <= Len(all_values[j + 1])
         THEN Some(all_values[j + 1][i + 1])
         ELSE None
    ELSE None

\* all_values.get(i).and_then(|r| r.get(j)).cloned(), i and j zero-based
cell_value(all_values, i, j) ==
    IF i + 1 <= Len(all_values)
    THEN IF j + 1 <= Len(all_values[i + 1])
         THEN Some(all_values[i + 1][j + 1])
         ELSE None
    ELSE None

\* cell_address without the row: format!("{}", col)
cell_address_no_row(col, ri) == col

\* format!("{}{}", col, row_index)
cell_address(col, ri) == col \o to_decimal(ri)

\* cell_at that hands the zero-based offset j to col_index_to_a1
cell_at_offset_column(sid, title, all_values, g, ri, ci) ==
    LET i == ri - g.start_row_index[1]
        j == ci - g.start_column_index[1]
        v == cell_value(all_values, i, j)
        col == col_index_to_a1(j)
    IN  IF col.tag # "Ok" THEN col
        ELSE Ok(MakeCell(sid, title, col.val \o to_decimal(ri), v, col.val, ci, ri))

\* the body of the inner loop: the Cell for (row_index, col_index)
cell_at(sid, title, all_values, g, ri, ci) ==
    LET i == ri - g.start_row_index[1]
        j == ci - g.start_column_index[1]
        v == cell_value(all_values, i, j)
        col == col_index_to_a1(ci)
    IN  IF col.tag # "Ok" THEN col
        ELSE Ok(MakeCell(sid, title, cell_address(col.val, ri), v, col.val, ci, ri))

\* the two nested for loops, from (ri, ci) on
RECURSIVE cells_loop(_, _, _, _, _, _, _)
cells_loop(sid, title, all_values, g, ri, ci, cells) ==
    IF ri > g.end_row_index[1] THEN Ok(cells)
    ELSE IF ci > g.end_column_index[1]
    THEN cells_loop(sid, title, all_values, g, ri + 1, g.start_column_index[1], cells)
    ELSE LET c == cell_at(sid, title, all_values, g, ri, ci) IN
         IF c.tag # "Ok" THEN c
         ELSE cells_loop(sid, title, all_values, g, ri, ci + 1, Append(cells, c.val))

\* value_range_to_cells that reads a missing range as an empty one
value_range_to_cells_default_range(sid, title, vr, oc) ==
    IF vr.range = None
    THEN Ok(<<>>)
    ELSE LET gr == a1_to_grid_range(vr.range[1], oc) IN
         IF gr.tag # "Ok" THEN gr
         ELSE LET g == gr.val IN
              cells_loop(sid, title, all_values_of(vr), g,
                         g.start_row_index[1], g.start_column_index[1], <<>>)

\* value_range_to_cells with the loops exchanged: columns outer, rows inner
RECURSIVE column_major_loop(_, _, _, _, _, _, _)
column_major_loop(sid, title, all_values, g, ri, ci, cells) ==
    IF ci > g.end_column_index[1] THEN Ok(cells)
    ELSE IF ri > g.end_row_index[1]
    THEN column_major_loop(sid, title, all_values, g, g.start_row_index[1], ci + 1, cells)
    ELSE LET c == cell_at(sid, title, all_values, g, ri, ci) IN
         IF c.tag # "Ok" THEN c
         ELSE column_major_loop(sid, title, all_values, g, ri + 1, ci, Append(cells, c.val))

value_range_to_cells_column_major(sid, title, vr, oc) ==
    IF vr.range = None
    THEN Err("ValueRange.range is None")
    ELSE LET gr == a1_to_grid_range(vr.range[1], oc) IN
         IF gr.tag # "Ok" THEN gr
         ELSE LET g == gr.val IN
              column_major_loop(sid, title, all_values_of(vr), g,
                                g.start_row_index[1], g.start_column_index[1], <<>>)

value_range_to_cells(sid, title, vr, oc) ==
    IF vr.range = None
    THEN Err("ValueRange.range is None")
    ELSE LET gr == a1_to_grid_range(vr.range[1], oc) IN
         IF gr.tag # "Ok" THEN gr
         ELSE LET g == gr.val IN
              cells_loop(sid, title, all_values_of(vr), g,
                         g.start_row_index[1], g.start_column_index[1], <<>>)

----------------------------------------------------------------------------
(* value_range_to_hash_cell_map *)

\* HashMap::new() and HashMap::insert
EmptyMap == [k \in {} |-> <<>>]

map_insert(m, k, v) == [x \in (DOMAIN m) \cup {k} |-> IF x = k THEN v ELSE m[x]]

\* hash_map_add without the contains_key branch: a fresh row map every time
hash_map_add_overwrite(hash_map, cell) ==
    map_insert(hash_map, cell.col, map_insert(EmptyMap, cell.row_index, cell))

\* hash_map_add that leaves out the cells without a value
hash_map_add_skip_absent(hash_map, cell) ==
    IF cell.value = None THEN hash_map
    ELSE IF cell.col \in DOMAIN hash_map
    THEN [hash_map EXCEPT ![cell.col] = map_insert(@, cell.row_index, cell)]
    ELSE map_insert(hash_map, cell.col, map_insert(EmptyMap, cell.row_index, cell))

\* the if / else that files a cell under its column
hash_map_add(hash_map, cell) ==
    IF cell.col \in DOMAIN hash_map
    THEN [hash_map EXCEPT ![cell.col] = map_insert(@, cell.row_index, cell)]
    ELSE map_insert(hash_map, cell.col, map_insert(EmptyMap, cell.row_index, cell))

\* the body of the inner loop up to the construction of the Cell
hash_cell_at(sid, title, all_values, g, ri, ci) ==
    LET i == ri - g.start_row_index[1]
        j == ci - g.start_column_index[1]
        col == col_index_to_a1(ci)
    IN  IF col.tag # "Ok" THEN col
        ELSE LET v == cell_value(all_values, i, j) IN
             Ok(MakeCell(sid, title, col.val \o to_decimal(ri), v, col.val, ci, ri))

RECURSIVE hash_loop(_, _, _, _, _, _, _)
hash_loop(sid, title, all_values, g, ri, ci, hash_map) ==
    IF ri > g.end_row_index[1] THEN Ok(hash_map)
    ELSE IF ci > g.end_column_index[1]
    THEN hash_loop(sid, title, all_values, g, ri + 1, g.start_column_index[1], hash_map)
    ELSE LET c == hash_cell_at(sid, title, all_values, g, ri, ci) IN
         IF c.tag # "Ok" THEN c
         ELSE hash_loop(sid, title, all_values, g, ri, ci + 1,
                        hash_map_add(hash_map, c.val))

value_range_to_hash_cell_map(sid, title, vr, oc) ==
    IF vr.range = None
    THEN Err("ValueRange.range is None")
    ELSE LET gr == a1_to_grid_range(vr.range[1], oc) IN
         IF gr.tag # "Ok" THEN gr
         ELSE LET g == gr.val IN
              hash_loop(sid, title, all_values_of(vr), g,
                        g.start_row_index[1], g.start_column_index[1], EmptyMap)

----------------------------------------------------------------------------
(* The inputs the callers hand in *)

Min(a, b) == IF a < b THEN a ELSE b

SeqsUpTo(S, n) == UNION {[1..k -> S] : k \in 0..n}

\* characters of the strings handed to parse_a1_cell
CellAlphabet == {"A", "B", "Z", "b", "0", "1", "3", "9", "$"}

CellStrings == SeqsUpTo(CellAlphabet, MaxLen)

ColIndexes == 0..Min(MaxColIndex, Modulus - 1)

\* well-formed references to the cells of the first MaxCol columns and MaxRow rows
RefCells == {col_index_to_a1_loop(c, <<>>) \o to_decimal(r) : c \in 1..MaxCol, r \in 1..MaxRow}

MalformedRefs == {<<>>, <<"A">>, <<"1", "A">>, <<"A", "0">>, <<"b", "2">>, <<"A", "$">>}

\* "X" and "X:Y", in either order of the corners
RangeBodies ==
    RefCells \cup MalformedRefs \cup {x \o <<":">> \o y : x \in RefCells, y \in RefCells}

RangePrefixes ==
    {<<>>, <<" ">>, <<"S", "!">>, <<"S", "!", "T", "!">>, <<"S", "!", " ">>, <<" ", "s", " ", "!">>}

RangeSuffixes == {<<>>, <<" ">>, <<":", "A", "1">>}

\* the range of the documentation's example, A1:B10
DocRanges == {<<"A", "1", ":", "B", "1", "0">>}

RangeStrings ==
    {p \o b \o s : p \in RangePrefixes, b \in RangeBodies \cup DocRanges, s \in RangeSuffixes}

\* ranges of the payloads: every body, some decorated ones, and one that
\* crosses from one-letter to two-letter columns and overflows no usize
GridRangeStrings ==
    RangeBodies \cup
    { <<"S", "!", "A", "1", ":", "B", "2">>,
      <<" ", "A", "1", ":", "C", "1", " ">>,
      <<"A", "1", ":", "B", "2", ":", "C", "3">>,
      <<"S", "!", "T", "!", "A", "1">>,
      <<"Y", "9">> \o <<":">> \o <<"A", "B", "1", "0">>,
      <<"Z", "Z", "Z", "1">> }

Dimensions == {"DIMENSION_UNSPECIFIED", "ROWS", "COLUMNS"}

\* the text of the value at row i, column j of a payload (zero-based)
CellText(i, j) == "v" \o ToString(i) \o "_" \o ToString(j)

\* a value array whose row i has lens[i] entries
GridOf(lens) == [i \in 1..Len(lens) |-> [j \in 1..lens[i] |-> CellText(i - 1, j - 1)]]

Grids == {GridOf(lens) : lens \in SeqsUpTo(0..MaxRowLen, MaxGridRows)}

ValueRanges ==
    [range : {None} \cup {Some(r) : r \in GridRangeStrings},
     major_dimension : {None} \cup {Some(d) : d \in Dimensions},
     values : {None} \cup {Some(g) : g \in Grids}]

NoValueRange == [range |-> None, major_dimension |-> None, values |-> None]

----------------------------------------------------------------------------
(* The codec: one call of a codec function on one input *)

\* there is no second caller
NoOther == [pc |-> "idle", result |-> NoResult]

\* the auth mutex when no call holds it
Unlocked == 0

\* no client has been built and no execute call is in progress
NoExecute ==
    /\ now = 0
    /\ auth_client = [token |-> [token |-> 0, expires_at |-> 0]]
    /\ auth_mutex = Unlocked
    /\ calls = <<>>
    /\ token_endpoint = [requests |-> 0, last |-> None]

CodecInputs ==
    \/ /\ target = "parse_a1_cell"
       /\ a1 \in CellStrings
       /\ col_index = 0
    \/ /\ target = "col_index_to_a1"
       /\ a1 = <<>>
       /\ col_index \in ColIndexes
    \/ /\ target \in {"a1_to_grid_range", "split_sheet_range"}
       /\ a1 \in RangeStrings
       /\ col_index = 0

Init ==
    /\ overflow_checks \in BOOLEAN
    /\ pc = "call"
    /\ result = NoResult
    /\ sheet_id = ""
    /\ sheet_title = ""
    /\ value_range = NoValueRange
    /\ CodecInputs
    /\ NoExecute
    /\ other = NoOther

\* a call that takes the values out of the ValueRange it was handed
Returns_draining(r) ==
    /\ pc' = "returned"
    /\ result' = r
    /\ value_range' = [value_range EXCEPT !.values = None]
    /\ UNCHANGED <<overflow_checks, target, a1, col_index, sheet_id, sheet_title,
                   now, auth_client, auth_mutex, calls, token_endpoint, other>>

Returns(r) ==
    /\ pc' = "returned"
    /\ result' = r
    /\ UNCHANGED <<overflow_checks, target, a1, col_index, sheet_id, sheet_title,
                   value_range, now, auth_client, auth_mutex, calls,
                   token_endpoint, other>>

ParseA1Cell ==
    /\ pc = "call"
    /\ target = "parse_a1_cell"
    /\ Returns(parse_a1_cell(a1, overflow_checks))

ColIndexToA1 ==
    /\ pc = "call"
    /\ target = "col_index_to_a1"
    /\ Returns(col_index_to_a1(col_index))

A1ToGridRange ==
    /\ pc = "call"
    /\ target = "a1_to_grid_range"
    /\ Returns(a1_to_grid_range(a1, overflow_checks))

SplitSheetRange ==
    /\ pc = "call"
    /\ target = "split_sheet_range"
    /\ Returns(split_sheet_range(a1))

Next ==
    \/ ParseA1Cell
    \/ ColIndexToA1
    \/ A1ToGridRange
    \/ SplitSheetRange

Spec == Init /\ [][Next]_vars

----------------------------------------------------------------------------
(* The reconciler: one call of a reconciler function on one payload *)

InitGrid ==
    /\ overflow_checks \in BOOLEAN
    /\ pc = "call"
    /\ result = NoResult
    /\ a1 = <<>>
    /\ col_index = 0
    /\ target \in {"value_range_to_cells", "value_range_to_hash_cell_map"}
    /\ sheet_id = "spreadsheet-1"
    /\ sheet_title = "Sheet1"
    /\ value_range \in ValueRanges
    \* the build without overflow checks is a case of its own only for a
    \* payload whose range it reads differently from the checked build
    /\ \/ overflow_checks
       \/ /\ value_range.range # None
          /\ a1_to_grid_range(value_range.range[1], TRUE) #
                 a1_to_grid_range(value_range.range[1], FALSE)
    /\ NoExecute
    /\ other = NoOther

ValueRangeToCells ==
    /\ pc = "call"
    /\ target = "value_range_to_cells"
    /\ Returns(value_range_to_cells(sheet_id, sheet_title, value_range, overflow_checks))

ValueRangeToHashCellMap ==
    /\ pc = "call"
    /\ target = "value_range_to_hash_cell_map"
    /\ Returns(value_range_to_hash_cell_map(sheet_id, sheet_title, value_range,
                                            overflow_checks))

NextGrid ==
    \/ ValueRangeToCells
    \/ ValueRangeToHashCellMap

SpecGrid == InitGrid /\ [][NextGrid]_vars

----------------------------------------------------------------------------
(* Vocabulary of the properties *)

Returned(f) == pc = "returned" /\ target = f

\* the rank of a letter, A or a = 1 ... Z or z = 26
RankOf(c) == CHOOSE i \in 1..26 : UpperCase[i] = c \/ LowerCase[i] = c

\* the value of a digit character
DigitOf(c) == CHOOSE d \in 0..9 : Digits[d + 1] = c

\* sum of f[lo] ... f[hi]
RECURSIVE SumOver(_, _, _)
SumOver(f, lo, hi) == IF lo > hi THEN 0 ELSE f[hi] + SumOver(f, lo, hi - 1)

\* bijective base-26 value of a letter run: sum of rank * 26^(position from the right)
LettersValue(s) ==
    SumOver([i \in 1..Len(s) |-> RankOf(s[i]) * Pow(26, Len(s) - i)], 1, Len(s))

\* base-10 value of a digit run
DecimalValue(s) ==
    SumOver([i \in 1..Len(s) |-> DigitOf(s[i]) * Pow(10, Len(s) - i)], 1, Len(s))

\* number of leading letters of s
RECURSIVE LetterRunLen(_)
LetterRunLen(s) ==
    IF s # <<>> /\ is_ascii_alphabetic(Head(s)) THEN 1 + LetterRunLen(Tail(s)) ELSE 0

LettersOf(s) == SubSeq(s, 1, LetterRunLen(s))

DigitsOf(s) == SubSeq(s, LetterRunLen(s) + 1, Len(s))

\* one or more ASCII letters followed by one or more decimal digits, nothing else
LettersThenDigits(s) ==
    /\ LettersOf(s) # <<>>
    /\ DigitsOf(s) # <<>>
    /\ \A i \in 1..Len(DigitsOf(s)) : is_ascii_digit(DigitsOf(s)[i])

\* both runs denote numbers that a usize holds
FitsUsize(s) == LettersValue(LettersOf(s)) < Modulus /\ DecimalValue(DigitsOf(s)) < Modulus

\* the parsed range of the payload, when there is one
PayloadRange ==
    IF value_range.range = None
    THEN Err("ValueRange.range is None")
    ELSE a1_to_grid_range(value_range.range[1], overflow_checks)

\* the value the source array holds at offset (i, j) from the start of the
\* range (zero-based), absent when it holds none
SourceValue(i, j) ==
    IF value_range.values # None
       /\ i + 1 \in DOMAIN value_range.values[1]
       /\ j + 1 \in DOMAIN value_range.values[1][i + 1]
    THEN Some(value_range.values[1][i + 1][j + 1])
    ELSE None

----------------------------------------------------------------------------
(* Properties of the reconciler, checked under SpecGrid *)

\* C1: whenever the payload's range parses, value_range_to_cells returns Ok and,
\* for every (row, col) of the parsed range, the cell emitted for that
\* coordinate carries values[row - start_row][col - start_column] when the
\* source array has that entry and no value otherwise (missing row, short row,
\* absent values): a short or ragged array never causes an error.
C1_ValuesByOffset ==
    Returned("value_range_to_cells") =>
        LET parsed == PayloadRange
            start_row == parsed.val.start_row_index[1]
            end_row == parsed.val.end_row_index[1]
            start_column == parsed.val.start_column_index[1]
            end_column == parsed.val.end_column_index[1]
        IN  parsed.tag = "Ok" =>
              /\ result.tag = "Ok"
              /\ \A row \in start_row..end_row : \A col \in start_column..end_column :
                    /\ \E k \in 1..Len(result.val) :
                          /\ result.val[k].row_index = row
                          /\ result.val[k].col_index = col
                    /\ \A k \in 1..Len(result.val) :
                          (result.val[k].row_index = row /\ result.val[k].col_index = col)
                              => result.val[k].value
                                    = SourceValue(row - start_row, col - start_column)

\* the ragged case: range A1:C1 over values [["v0_0"]] gives A1 its value and
\* B1, C1 none
C1_Witness ==
    /\ Returned("value_range_to_cells")
    /\ value_range.range = Some(<<"A", "1", ":", "C", "1">>)
    /\ value_range.values = Some(<< <<"v0_0">> >>)
    /\ result.tag = "Ok"
    /\ Len(result.val) = 3
    /\ result.val[1].value = Some("v0_0")
    /\ result.val[2].value = None
    /\ result.val[3].value = None

\* C2: every successful call of value_range_to_cells returns exactly
\* (end_row - start_row + 1) * (end_column - start_column + 1) cells.
C2_Cardinality ==
    (Returned("value_range_to_cells") /\ result.tag = "Ok") =>
        LET g == PayloadRange.val IN
        Len(result.val) = (g.end_row_index[1] - g.start_row_index[1] + 1)
                              * (g.end_column_index[1] - g.start_column_index[1] + 1)

C4_UniqueAddress ==
    (Returned("value_range_to_cells") /\ result.tag = "Ok") =>
        \A i \in 1..Len(result.val) : \A j \in 1..Len(result.val) :
            i # j => result.val[i].address # result.val[j].address

\* the range Y9:AB10, whose eight addresses have two to four characters
C4_Witness ==
    /\ Returned("value_range_to_cells")
    /\ result.tag = "Ok"
    /\ Len(result.val) = 8
    /\ result.val[1].address = <<"Y", "9">>
    /\ result.val[8].address = <<"A", "B", "1", "0">>

\* the (column letter, row index) pairs that are keys of a grouped map
MapKeys(m) == UNION {{<<c, r>> : r \in DOMAIN m[c]} : c \in DOMAIN m}

\* C5: for the same arguments the grouped map holds exactly the cells of the
\* list: the two calls succeed together, every cell of the list is found at
\* map[cell.col][cell.row_index], and the map has as many inner entries as
\* the list has cells.
C5_MapHoldsListCells ==
    Returned("value_range_to_hash_cell_map") =>
        LET list == value_range_to_cells(sheet_id, sheet_title, value_range,
                                         overflow_checks)
        IN  /\ result.tag = list.tag
            /\ result.tag = "Ok" =>
                  /\ \A k \in 1..Len(list.val) :
                        LET cell == list.val[k] IN
                        /\ cell.col \in DOMAIN result.val
                        /\ cell.row_index \in DOMAIN result.val[cell.col]
                        /\ result.val[cell.col][cell.row_index] = cell
                  /\ Cardinality(MapKeys(result.val)) = Len(list.val)

\* range A1:B2 over a full 2 x 2 array: keys A and B, rows 1 and 2 under each
C5_Witness ==
    /\ Returned("value_range_to_hash_cell_map")
    /\ value_range.range = Some(<<"A", "1", ":", "B", "2">>)
    /\ value_range.values = Some(<< <<"v0_0", "v0_1">>, <<"v1_0", "v1_1">> >>)
    /\ result.tag = "Ok"
    /\ DOMAIN result.val = {<<"A">>, <<"B">>}
    /\ DOMAIN result.val[<<"A">>] = {1, 2}
    /\ DOMAIN result.val[<<"B">>] = {1, 2}
    /\ result.val[<<"A">>][1].value = Some("v0_0")
    /\ result.val[<<"B">>][1].value = Some("v0_1")
    /\ result.val[<<"A">>][2].value = Some("v1_0")
    /\ result.val[<<"B">>][2].value = Some("v1_1")

\* C6: under every column letter of the returned map the row keys are the
\* whole row range start_row .. end_row, rows without a value included.
C6_FullRowRange ==
    (Returned("value_range_to_hash_cell_map") /\ result.tag = "Ok") =>
        LET g == PayloadRange.val IN
        \A c \in DOMAIN result.val :
            DOMAIN result.val[c] = g.start_row_index[1]..g.end_row_index[1]

\* range A1:B2 over the one-entry array [["v0_0"]]: the rows without a value
\* are still keys
C6_Witness ==
    /\ Returned("value_range_to_hash_cell_map")
    /\ value_range.range = Some(<<"A", "1", ":", "B", "2">>)
    /\ value_range.values = Some(<< <<"v0_0">> >>)
    /\ result.tag = "Ok"
    /\ DOMAIN result.val = {<<"A">>, <<"B">>}
    /\ DOMAIN result.val[<<"B">>] = {1, 2}
    /\ result.val[<<"A">>][1].value = Some("v0_0")
    /\ result.val[<<"A">>][2].value = None
    /\ result.val[<<"B">>][1].value = None
    /\ result.val[<<"B">>][2].value = None

----------------------------------------------------------------------------
(* Properties of the codec, checked under Spec *)

\* C7: every GridRange that a1_to_grid_range returns has start_row <= end_row
\* and start_column <= end_column; a range given backwards is rejected.
C7_StartBeforeEnd ==
    (Returned("a1_to_grid_range") /\ result.tag = "Ok") =>
        /\ result.val.start_row_index[1] <= result.val.end_row_index[1]
        /\ result.val.start_column_index[1] <= result.val.end_column_index[1]

C9_BijectiveLetters ==
    Returned("col_index_to_a1") =>
        /\ col_index = 0 => result.tag = "Err"
        /\ col_index >= 1 =>
              /\ result.tag = "Ok"
              /\ result.val # <<>>
              /\ \A i \in 1..Len(result.val) : result.val[i] \in AsciiUpperCase
              /\ LettersValue(result.val) = col_index
        /\ col_index = 1 => result = Ok(<<"A">>)
        /\ col_index = 26 => result = Ok(<<"Z">>)
        /\ col_index = 27 => result = Ok(<<"A", "A">>)

\* the first two-letter column
C9_Witness ==
    /\ Returned("col_index_to_a1")
    /\ col_index = 27
    /\ result = Ok(<<"A", "A">>)

\* C10: for every column index n in 1 .. 1000, parse_a1_cell of the letters
\* of n followed by "1" succeeds and its column is n.
C10_RoundTrip ==
    (Returned("col_index_to_a1") /\ col_index \in 1..1000) =>
        /\ result.tag = "Ok"
        /\ LET back == parse_a1_cell(result.val \o <<"1">>, overflow_checks) IN
           /\ back.tag = "Ok"
           /\ back.val[1] = col_index

\* the last index of the claim's interval, column ALL
C10_Witness ==
    /\ Returned("col_index_to_a1")
    /\ col_index = 1000
    /\ result = Ok(<<"A", "L", "L">>)
    /\ parse_a1_cell(<<"A", "L", "L", "1">>, overflow_checks) = Ok(<<1000, 1>>)

\* the letter run in upper case
UpperOf(s) == [i \in 1..Len(s) |-> UpperCase[RankOf(s[i])]]

ZeroIndex(s) ==
    \/ LettersOf(s) = <<>>
    \/ DigitsOf(s) = <<>>
    \/ \A i \in 1..Len(DigitsOf(s)) : DigitsOf(s)[i] = "0"

HasOtherChar(s) ==
    \E i \in 1..Len(s) : s[i] \notin AsciiUpperCase \cup AsciiLowerCase \cup AsciiDigits

\* a letter somewhere after a digit
LetterAfterDigit(s) ==
    \E i \in 1..Len(s) : \E j \in (i + 1)..Len(s) :
        s[i] \in AsciiDigits /\ s[j] \in AsciiUpperCase \cup AsciiLowerCase

\* number of leading digits of s
RECURSIVE DigitRunLen(_)
DigitRunLen(s) ==
    IF s # <<>> /\ is_ascii_digit(Head(s)) THEN 1 + DigitRunLen(Tail(s)) ELSE 0

\* the digits that directly follow the letter run
LeadingDigitsOf(s) == SubSeq(DigitsOf(s), 1, DigitRunLen(DigitsOf(s)))

\* the letter run, or the digits that follow it, exceed a usize
RunsOverflow(s) ==
    \/ LettersValue(LettersOf(s)) >= Modulus
    \/ DecimalValue(LeadingDigitsOf(s)) >= Modulus

Count(s, c) == Cardinality({i \in 1..Len(s) : s[i] = c})

\* the text before and after the first occurrence of c in s
FirstAt(s, c) == CHOOSE i \in 1..Len(s) : s[i] = c /\ \A j \in 1..(i - 1) : s[j] # c
Before(s, c) == SubSeq(s, 1, FirstAt(s, c) - 1)
After(s, c) == SubSeq(s, FirstAt(s, c) + 1, Len(s))

\* t is s without its leading and trailing white space
IsStripped(t, s) ==
    \E i \in 0..Len(s) : \E j \in 0..(Len(s) - i) :
        /\ t = SubSeq(s, i + 1, Len(s) - j)
        /\ \A k \in 1..i : s[k] \in WhiteSpace
        /\ \A k \in (Len(s) - j + 1)..Len(s) : s[k] \in WhiteSpace
        /\ t # <<>> => (t[1] \notin WhiteSpace /\ t[Len(t)] \notin WhiteSpace)

Stripped(s) ==
    CHOOSE t \in {SubSeq(s, i, j) : i \in 1..(Len(s) + 1), j \in 0..Len(s)} : IsStripped(t, s)

\* the GridRange from the cell (sc, sr) to the cell (ec, er), sheet_id unset
RangeFromTo(sc, sr, ec, er) ==
    [sheet_id |-> <<>>,
     start_row_index |-> <<sr>>,
     end_row_index |-> <<er>>,
     start_column_index |-> <<sc>>,
     end_column_index |-> <<ec>>]

\* the first two forms of C14 and the documentation's example
BareForms(t) ==
    /\ (Count(t, "!") = 0 /\ Count(t, ":") = 0) =>
          LET x == parse_a1_cell(t, overflow_checks) IN
          x.tag = "Ok" =>
              result = Ok(RangeFromTo(x.val[1], x.val[2], x.val[1], x.val[2]))
    /\ (Count(t, "!") = 0 /\ Count(t, ":") = 1) =>
          LET x == parse_a1_cell(Before(t, ":"), overflow_checks)
              y == parse_a1_cell(After(t, ":"), overflow_checks)
          IN  (x.tag = "Ok" /\ y.tag = "Ok") =>
                  result = Ok(RangeFromTo(x.val[1], x.val[2], y.val[1], y.val[2]))
    /\ t = <<"A", "1", ":", "B", "1", "0">> => result = Ok(RangeFromTo(1, 1, 2, 10))

\* two calls yield the same GridRange: if either returns one, so does the other,
\* and it is equal
SameGridRange(r1, r2) == (r1.tag = "Ok" \/ r2.tag = "Ok") => r1 = r2

RangePartOf(t) == IF Count(t, "!") = 0 THEN t ELSE After(t, "!")

\* C15: a1_to_grid_range returns the invalid-range error when the input has
\* more than one "!" or its range part more than one ":", and never returns a
\* GridRange when a half of the range fails parse_a1_cell.
C15_RejectsMalformedRange ==
    Returned("a1_to_grid_range") =>
        LET t == Stripped(a1) IN
        /\ Count(t, "!") > 1 => result = Err("Invalid range")
        /\ (Count(t, "!") <= 1 /\ Count(RangePartOf(t), ":") > 1) =>
              result = Err("Invalid range")
        /\ (Count(t, "!") <= 1 /\ Count(RangePartOf(t), ":") = 1) =>
              LET x == parse_a1_cell(Before(RangePartOf(t), ":"), overflow_checks)
                  y == parse_a1_cell(After(RangePartOf(t), ":"), overflow_checks)
              IN  (x.tag # "Ok" \/ y.tag # "Ok") => result.tag # "Ok"
        /\ (Count(t, "!") <= 1 /\ Count(RangePartOf(t), ":") = 0) =>
              (parse_a1_cell(RangePartOf(t), overflow_checks).tag # "Ok"
                  => result.tag # "Ok")

\* three cells joined by two colons
C15_Witness ==
    /\ Returned("a1_to_grid_range")
    /\ a1 = <<"A", "1", ":", "B", "2", ":", "A", "1">>
    /\ result = Err("Invalid range")

\* C16: split_sheet_range returns the invalid-range error when the input has
\* no "!" or more than one; with exactly one it returns the text before and
\* the text after the "!" of the trimmed input, so that name, "!" and range
\* put together are the trimmed input.
C16_SplitAtOneBang ==
    Returned("split_sheet_range") =>
        IF Count(a1, "!") = 1
        THEN /\ result.tag = "Ok"
             /\ Count(result.val[1], "!") = 0
             /\ Count(result.val[2], "!") = 0
             /\ IsStripped(result.val[1] \o <<"!">> \o result.val[2], a1)
        ELSE result = Err("Invalid range")

\* a sheet name and a range in surrounding blanks
C16_Witness ==
    /\ Returned("split_sheet_range")
    /\ a1 = <<" ", "s", " ", "!", "A", "1", ":", "B", "2", " ">>
    /\ result = Ok(<< <<"s", " ">>, <<"A", "1", ":", "B", "2">> >>)

----------------------------------------------------------------------------
(* Failure behaviour of the reconciler, checked under SpecGrid *)

ReconcilerReturned ==
    Returned("value_range_to_cells") \/ Returned("value_range_to_hash_cell_map")

\* C17: with value_range.range absent both reconciler functions return the
\* missing-range error and no cells, whatever values and major_dimension hold.
C17_MissingRangeFails ==
    (ReconcilerReturned /\ value_range.range = None) =>
        result = Err("ValueRange.range is None")

\* a full COLUMNS payload without a range, handed to the list function
C17_Witness ==
    /\ Returned("value_range_to_cells")
    /\ value_range.range = None
    /\ value_range.major_dimension = Some("COLUMNS")
    /\ value_range.values = Some(<< <<"v0_0", "v0_1">>, <<"v1_0", "v1_1">> >>)
    /\ result = Err("ValueRange.range is None")

\* number of cells a returned list or grouped map holds
CellCount ==
    IF target = "value_range_to_cells"
    THEN Len(result.val)
    ELSE Cardinality(MapKeys(result.val))

\* C18: a reconciler call fails without any cell when the range is absent or
\* does not parse, and once a1_to_grid_range has succeeded it returns Ok with
\* one cell for every coordinate of the range: no call stops part of the way.
C18_AllOrNothing ==
    ReconcilerReturned =>
        LET parsed == PayloadRange
            rows == parsed.val.start_row_index[1]..parsed.val.end_row_index[1]
            cols == parsed.val.start_column_index[1]..parsed.val.end_column_index[1]
        IN  IF parsed.tag = "Ok"
            THEN /\ result.tag = "Ok"
                 /\ CellCount = Cardinality(rows) * Cardinality(cols)
            ELSE /\ result.tag # "Ok"
                 /\ result.val = <<>>

\* a 2 x 3 range with no values at all, grouped: six cells
C18_Witness ==
    /\ Returned("value_range_to_hash_cell_map")
    /\ value_range.range = Some(<<"A", "1", ":", "C", "2">>)
    /\ value_range.values = None
    /\ result.tag = "Ok"
    /\ Cardinality(MapKeys(result.val)) = 6

----------------------------------------------------------------------------
(* The request layer: execute operations sharing one auth provider *)

\* execute calls in progress at the same time
NumCalls == 2
\* seconds the clock may advance
MaxTime == 1
\* seconds taken off a token's lifetime when its expiry is computed
ExpiryMargin == 10

Calls == 1..NumCalls

\* expires_in of the tokens the token endpoint hands out
ExpiresIns == {10, 11}

Operations ==
    {"spreadsheet_get", "batch_get", "batch_update", "get_all_value",
     "get_all_cell", "get_hash_map_cell"}

\* the operations whose builder takes a range string
RangeOperations == {"batch_get", "batch_update"}

\* range strings handed to range() / add_value_range()
BuilderRanges == {<<"A", "1", ":", "B", "2">>, <<"1", "A">>}

\* a GSheetError of the given variant
GSheetError(kind, m) == [tag |-> "Err", kind |-> kind, val |-> <<>>, msg |-> m]

\* AccessToken::new
AccessToken(token, expires_in, t) ==
    [token |-> token, expires_at |-> t + expires_in - ExpiryMargin]

\* TokenProvider for AccessToken
get_access_token(tok) == tok.token

is_expired(tok, t) == tok.expires_at < t

\* set_token that counts the new lifetime from the previous expiry
set_token_extending(tok, token, expires_in, t) ==
    [tok EXCEPT !.token = token,
                !.expires_at = @ + expires_in - ExpiryMargin]

set_token(tok, token, expires_in, t) ==
    [tok EXCEPT !.token = token,
                !.expires_at = t + expires_in - ExpiryMargin]

\* AuthProvider for ServiceAccountAuthClient
get_token(ac) == get_access_token(ac.token)

\* what ServiceAccountAuthClient::get_access_token may come back with: a
\* TokenResponse carrying a token never seen before, or an AuthError
TokenResponses(ac) ==
    {Ok([access_token |-> get_token(ac) + 1, expires_in |-> e]) : e \in ExpiresIns}
    \cup {[tag |-> "Err", kind |-> k, val |-> <<>>, msg |-> k] :
            k \in {"JwtCreationError", "HttpRequestError", "RequestError"}}

\* ensure_valid_token that asks for a new token whether or not the stored
\* one is expired
ensure_valid_token_always(ac, t, new_token) ==
    IF new_token.tag = "Ok"
    THEN [auth |-> [ac EXCEPT !.token =
                       [token |-> new_token.val.access_token,
                        expires_at |-> t + new_token.val.expires_in - ExpiryMargin]],
          result |-> Ok(<<>>), requested |-> TRUE]
    ELSE [auth |-> ac, result |-> new_token, requested |-> TRUE]

\* ensure_valid_token that drops the stored token when the refresh fails
ensure_valid_token_clearing(ac, t, new_token) ==
    IF ac.token.expires_at < t
    THEN IF new_token.tag = "Ok"
         THEN [auth |-> [ac EXCEPT !.token =
                            [token |-> new_token.val.access_token,
                             expires_at |-> t + new_token.val.expires_in - ExpiryMargin]],
               result |-> Ok(<<>>), requested |-> TRUE]
         ELSE [auth |-> [ac EXCEPT !.token = [token |-> -1, expires_at |-> t]],
               result |-> new_token, requested |-> TRUE]
    ELSE [auth |-> ac, result |-> Ok(<<>>), requested |-> FALSE]

\* ensure_valid_token with the outcome of the refresh request, should it make
\* one: the provider afterwards and the value returned
ensure_valid_token(ac, t, new_token) ==
    IF is_expired(ac.token, t)
    THEN IF new_token.tag = "Ok"
         THEN [auth |-> [ac EXCEPT !.token =
                            set_token(@, new_token.val.access_token,
                                      new_token.val.expires_in, t)],
               result |-> Ok(<<>>), requested |-> TRUE]
         ELSE [auth |-> ac, result |-> new_token, requested |-> TRUE]
    ELSE [auth |-> ac, result |-> Ok(<<>>), requested |-> FALSE]

\* the token endpoint after it has answered one more request at time t
answered(te, new_token, t) ==
    [requests |-> te.requests + 1,
     last |-> IF new_token.tag = "Ok"
              THEN Some([at |-> t, access_token |-> new_token.val.access_token,
                         expires_in |-> new_token.val.expires_in])
              ELSE te.last]

\* format!("{}!{}", sheet_title, range)
sheet_range(title, range) == <<title, "!">> \o range

\* the request an execute operation builds
request_of(op, title, ranges, bearer) ==
    [operation |-> op,
     bearer_auth |-> bearer,
     ranges |-> IF op \in RangeOperations
                THEN [i \in 1..Len(ranges) |-> sheet_range(title, ranges[i])]
                ELSE ranges]

\* ValueRange bodies the server may answer a values request with
ResponseValueRanges ==
    {[range |-> None, major_dimension |-> Some("ROWS"),
      values |-> Some(GridOf(<<1>>))],
     [range |-> Some(<<"S", "!", "1", "A">>), major_dimension |-> Some("ROWS"),
      values |-> Some(GridOf(<<1>>))],
     [range |-> Some(<<"S", "!", "A", "1", ":", "B", "1">>),
      major_dimension |-> Some("ROWS"), values |-> Some(GridOf(<<2>>))]}

ValueOperations == {"get_all_value", "get_all_cell", "get_hash_map_cell"}

\* what may come back for a request that was sent
Responses(op) ==
    {[kind |-> k, body |-> <<>>] : k \in {"transport_error", "status_error", "undecodable"}}
    \cup {[kind |-> "success", body |-> b] :
            b \in IF op \in ValueOperations THEN ResponseValueRanges ELSE {op}}

\* the part of execute after request.send(): the status test and the decoding
response_result(resp) ==
    CASE resp.kind = "transport_error" -> GSheetError("HttpRequestError", "reqwest::Error")
      [] resp.kind = "status_error" -> GSheetError("HttpRequestError", "reqwest::Error")
      [] resp.kind = "undecodable" -> GSheetError("HttpRequestError", "reqwest::Error")
      [] OTHER -> Ok(resp.body)

\* a core result as the caller of execute sees it
core_result(r) == IF r.tag = "Err" THEN GSheetError("UtilsError", r.msg) ELSE r

\* get_all_cell that reconciles an empty ValueRange when the request failed
get_all_cell_result_unconditional(sid, title, r, oc) ==
    IF r.tag # "Ok"
    THEN core_result(value_range_to_cells(sid, title, NoValueRange, oc))
    ELSE IF r.val.range = None
         THEN GSheetError("ResponseParseError", "No range found")
         ELSE core_result(value_range_to_cells(sid, title, r.val, oc))

\* GetAllCellOperations::execute after the values request has returned
get_all_cell_result(sid, title, r, oc) ==
    IF r.tag # "Ok" THEN r
    ELSE IF r.val.range = None
         THEN GSheetError("ResponseParseError", "No range found")
         ELSE core_result(value_range_to_cells(sid, title, r.val, oc))

\* GetHashMapCellOperations::execute after the values request has returned
get_hash_map_cell_result(sid, title, r, oc) ==
    IF r.tag # "Ok" THEN r
    ELSE IF r.val.range = None
         THEN GSheetError("ResponseParseError", "No range found")
         ELSE core_result(value_range_to_hash_cell_map(sid, title, r.val, oc))

\* the value execute returns for a response
execute_result(op, sid, title, resp, oc) ==
    CASE op = "get_all_cell" ->
            get_all_cell_result(sid, title, response_result(resp), oc)
      [] op = "get_hash_map_cell" ->
            get_hash_map_cell_result(sid, title, response_result(resp), oc)
      [] OTHER -> response_result(resp)

\* the threads whose executors poll the calls
Threads == 1..NumCalls

NewCalls ==
    [op : Operations \ RangeOperations, ranges : {<<>>}, pc : {"start"},
     ensured : {FALSE}, request : {None}, result : {NoResult},
     thread : Threads]
    \cup [op : RangeOperations, ranges : {<<r>> : r \in BuilderRanges},
          pc : {"start"}, ensured : {FALSE}, request : {None},
          result : {NoResult}, thread : Threads]

\* the builders in a fixed order
Builders ==
    <<<<"spreadsheet_get", <<>>>>,
      <<"batch_get", <<<<"A", "1", ":", "B", "2">>>>>>,
      <<"batch_get", <<<<"1", "A">>>>>>,
      <<"batch_update", <<<<"A", "1", ":", "B", "2">>>>>>,
      <<"batch_update", <<<<"1", "A">>>>>>,
      <<"get_all_value", <<>>>>,
      <<"get_all_cell", <<>>>>,
      <<"get_hash_map_cell", <<>>>>>>

BuilderRank(call) ==
    CHOOSE i \in 1..Len(Builders) : Builders[i] = <<call.op, call.ranges>>

\* calls carry no identity of their own: they are numbered in the order of
\* their builders. They are either all polled by one thread (the futures
\* joined on one executor) or each on a thread of its own.
Numbered(cs) ==
    /\ \A c \in Calls : c > 1 => BuilderRank(cs[c - 1]) <= BuilderRank(cs[c])
    /\ \/ \A c \in Calls : cs[c].thread = 1
       \/ \A c \in Calls : cs[c].thread = c

\* the ranges the server answers with are far below the usize limit, so the
\* build profile makes no difference to execute: the debug profile is taken
InitExec ==
    /\ overflow_checks = TRUE
    /\ target = "execute"
    /\ pc = "call"
    /\ a1 = <<>>
    /\ col_index = 0
    /\ sheet_id = "spreadsheet-1"
    /\ sheet_title = "S"
    /\ value_range = NoValueRange
    /\ result = NoResult
    /\ now = 0
    /\ \E e \in ExpiresIns :
         /\ auth_client = [token |-> AccessToken(0, e, 0)]
         /\ token_endpoint =
                answered([requests |-> 0, last |-> None],
                         Ok([access_token |-> 0, expires_in |-> e]), 0)
    /\ auth_mutex = Unlocked
    /\ calls \in {cs \in [Calls -> NewCalls] : Numbered(cs)}
    /\ other = NoOther

ExecFrame ==
    UNCHANGED <<overflow_checks, target, pc, a1, col_index, sheet_id,
                sheet_title, value_range, result, other>>

\* the step of execute that comes after the mutex is taken
AfterLock(op) == IF op = "spreadsheet_get" THEN "locked" ELSE "checked"

\* the thread of the call is free to poll it: it is neither stuck inside
\* another call's lock() nor in the middle of polling another call (a thread
\* polls one future at a time, up to the await where that future suspends)
Runnable(c) ==
    \A d \in Calls \ {c} :
        calls[d].thread = calls[c].thread =>
            calls[d].pc \notin {"locking", "locked", "checked"}

\* auth_client.lock() while another call holds the mutex: the thread blocks
\* (also when the holder is a call of this same thread: std's mutexes do not
\* return from such a lock())
BlockOnLock(c) ==
    /\ calls[c].pc = "start"
    /\ Runnable(c)
    /\ auth_mutex # Unlocked
    /\ calls' = [calls EXCEPT ![c].pc = "locking"]
    /\ UNCHANGED <<now, auth_client, auth_mutex, token_endpoint>>
    /\ ExecFrame

\* a lock() that hands out the guard whether or not the mutex is held
Lock_unguarded(c) ==
    /\ calls[c].pc \in {"start", "locking"}
    /\ auth_mutex' = c
    /\ calls' = [calls EXCEPT ![c].pc = IF calls[c].op = "spreadsheet_get"
                                        THEN "locked" ELSE "checked"]
    /\ UNCHANGED <<overflow_checks, target, pc, a1, col_index, sheet_id,
                   sheet_title, value_range, result, other, now, auth_client,
                   token_endpoint>>

\* auth_client.lock() returns the guard
Lock(c) ==
    /\ calls[c].pc \in {"start", "locking"}
    /\ Runnable(c)
    /\ auth_mutex = Unlocked
    /\ auth_mutex' = c
    /\ calls' = [calls EXCEPT ![c].pc = AfterLock(calls[c].op)]
    /\ UNCHANGED <<now, auth_client, token_endpoint>>
    /\ ExecFrame

\* auth_client.ensure_valid_token().await? with the token endpoint's answer
EnsureValidTokenWith(c, new_token) ==
    /\ calls[c].pc = "locked"
    /\ Runnable(c)
    /\ auth_mutex = c
    /\ LET e == ensure_valid_token(auth_client, now, new_token) IN
         /\ auth_client' = e.auth
         /\ token_endpoint' = IF e.requested
                              THEN answered(token_endpoint, new_token, now)
                              ELSE token_endpoint
         /\ IF e.result.tag = "Ok"
            THEN /\ calls' = [calls EXCEPT ![c].pc = "checked",
                                           ![c].ensured = TRUE]
                 /\ UNCHANGED auth_mutex
            ELSE /\ calls' = [calls EXCEPT ![c].pc = "done",
                                           ![c].ensured = TRUE,
                                           ![c].result =
                                               GSheetError("AuthError", e.result.msg)]
                 /\ auth_mutex' = Unlocked
    /\ UNCHANGED now
    /\ ExecFrame

EnsureValidToken(c) ==
    \E new_token \in TokenResponses(auth_client) : EnsureValidTokenWith(c, new_token)

\* the request is built with bearer_auth(auth_client.get_token()) and sent
Send(c) ==
    /\ calls[c].pc = "checked"
    /\ Runnable(c)
    /\ auth_mutex = c
    /\ calls' = [calls EXCEPT ![c].pc = "sent",
                              ![c].request =
                                  Some(request_of(calls[c].op, sheet_title,
                                                  calls[c].ranges,
                                                  get_token(auth_client)))]
    /\ UNCHANGED <<now, auth_client, auth_mutex, token_endpoint>>
    /\ ExecFrame

\* request.send().await comes back with resp, execute returns and the guard
\* is dropped
RespondWith(c, resp) ==
    /\ calls[c].pc = "sent"
    /\ Runnable(c)
    /\ auth_mutex = c
    /\ calls' = [calls EXCEPT ![c].pc = "done",
                              ![c].result =
                                  execute_result(calls[c].op, sheet_id, sheet_title,
                                                 resp, overflow_checks)]
    /\ auth_mutex' = Unlocked
    /\ UNCHANGED <<now, auth_client, token_endpoint>>
    /\ ExecFrame

Respond(c) == \E resp \in Responses(calls[c].op) : RespondWith(c, resp)

\* a second passes
Tick ==
    /\ now < MaxTime
    /\ now' = now + 1
    /\ UNCHANGED <<auth_client, auth_mutex, calls, token_endpoint>>
    /\ ExecFrame

NextExec ==
    \/ \E c \in Calls : BlockOnLock(c)
    \/ \E c \in Calls : Lock(c)
    \/ \E c \in Calls : EnsureValidToken(c)
    \/ \E c \in Calls : Send(c)
    \/ \E c \in Calls : Respond(c)
    \/ Tick

SpecExec == InitExec /\ [][NextExec]_vars

----------------------------------------------------------------------------
(* Token check and range check ahead of the request *)

\* the call has sent its HTTP request
Sent(c) == calls[c].request # None

\* the token the shared provider holds is past its expiry
TokenExpired == is_expired(auth_client.token, now)

\* C19: a call that has sent its HTTP request has run ensure_valid_token
\* on the shared auth provider before, in that same call
C19_EnsureBeforeRequest ==
    \A c \in Calls : Sent(c) => calls[c].ensured

\* the range strings of the call that are not A1 notation
Unparseable(c) ==
    {i \in 1..Len(calls[c].ranges) :
        a1_to_grid_range(calls[c].ranges[i], overflow_checks).tag # "Ok"}

\* C20: a batch get or batch update whose builder was given a range string
\* that is not A1 notation sends no HTTP request, and once it has returned
\* its result is the core (utility) error
C20_NoRequestOnBadRange ==
    \A c \in Calls :
        (calls[c].op \in RangeOperations /\ Unparseable(c) # {}) =>
            /\ ~Sent(c)
            /\ calls[c].pc = "done" =>
                   calls[c].result.tag = "Err" /\ calls[c].result.kind = "UtilsError"

----------------------------------------------------------------------------
(* The fields of a Cell *)

\* the Cell agrees with itself, with the parsed range g and with the arguments
ConsistentCell(cell, g) ==
    LET digits == SubSeq(cell.address, Len(cell.col) + 1, Len(cell.address)) IN
    /\ col_index_to_a1(cell.col_index) = Ok(cell.col)
    /\ LettersValue(cell.col) = cell.col_index
    /\ SubSeq(cell.address, 1, Len(cell.col)) = cell.col
    /\ digits # <<>>
    /\ \A i \in 1..Len(digits) : is_ascii_digit(digits[i])
    /\ digits[1] # "0"
    /\ DecimalValue(digits) = cell.row_index
    /\ g.start_row_index[1] <= cell.row_index
    /\ cell.row_index <= g.end_row_index[1]
    /\ g.start_column_index[1] <= cell.col_index
    /\ cell.col_index <= g.end_column_index[1]
    /\ cell.sheet_id = sheet_id
    /\ cell.sheet_title = sheet_title

\* C27: every Cell of the list and of the grouped map has col =
\* col_index_to_a1(col_index), address = col followed by the decimal text of
\* row_index, indices inside the parsed range and the sheet_id and
\* sheet_title of the call; the cell stored at map[c][r] has col c and
\* row_index r
C27_ConsistentCells ==
    (pc = "returned" /\ result.tag = "Ok") =>
        LET g == PayloadRange.val IN
        /\ target = "value_range_to_cells" =>
              \A k \in 1..Len(result.val) : ConsistentCell(result.val[k], g)
        /\ target = "value_range_to_hash_cell_map" =>
              \A c \in DOMAIN result.val : \A r \in DOMAIN result.val[c] :
                  /\ ConsistentCell(result.val[c][r], g)
                  /\ result.val[c][r].col = c
                  /\ result.val[c][r].row_index = r

\* the range Y9:AB10 grouped: four columns of one and two letters, rows of
\* one and two digits
C27_Witness ==
    /\ Returned("value_range_to_hash_cell_map")
    /\ result.tag = "Ok"
    /\ DOMAIN result.val = {<<"Y">>, <<"Z">>, <<"A", "A">>, <<"A", "B">>}
    /\ DOMAIN result.val[<<"A", "B">>] = {9, 10}
    /\ result.val[<<"A", "B">>][10].address = <<"A", "B", "1", "0">>

----------------------------------------------------------------------------
(* Error kinds and the order of request and reconciliation *)

CellOperations == {"get_all_cell", "get_hash_map_cell"}

\* the call has returned
Done(c) == calls[c].pc = "done"

\* successful responses whose ValueRange has no range, or a range that
\* a1_to_grid_range rejects
UnusableRangeResponses ==
    {resp \in Responses("get_all_cell") :
        /\ resp.kind = "success"
        /\ \/ resp.body.range = None
           \/ a1_to_grid_range(resp.body.range[1], overflow_checks).tag = "Err"}

\* C21: when get_all_cell or get_hash_map_cell receives a successful response
\* whose ValueRange has no range or an unparseable range, the call returns
\* an error of the core's own kind (the utility error), not of a transport,
\* auth or response-parse kind
C21_CoreErrorKind ==
    [][\A c \in Calls :
          (calls[c].op \in CellOperations /\ calls[c].pc = "sent") =>
              \A resp \in UnusableRangeResponses :
                  RespondWith(c, resp) =>
                      /\ calls'[c].result.tag = "Err"
                      /\ calls'[c].result.kind = "UtilsError"]_vars

\* responses that are no successful, decodable answer
FailedResponses ==
    {resp \in Responses("get_all_cell") : resp.kind # "success"}

----------------------------------------------------------------------------
(* The token of the service account client *)

\* the call is at auth_client.ensure_valid_token()
Ensuring(c) == calls[c].pc = "locked" /\ auth_mutex = c

\* C24: ensure_valid_token asks the token endpoint for a new token exactly
\* when the stored token is expired. Not expired: no request, token and
\* expiry unchanged, Ok. Expired and the request succeeds: the stored token
\* is the new access token. Sending a request reads the stored token without
\* refreshing it, and the stored token is always the last one issued.
C24_RefreshIffExpired ==
    [][/\ \A c \in Calls :
            Ensuring(c) =>
                \A new_token \in TokenResponses(auth_client) :
                    EnsureValidTokenWith(c, new_token) =>
                        IF TokenExpired
                        THEN /\ token_endpoint'.requests = token_endpoint.requests + 1
                             /\ new_token.tag = "Ok" =>
                                    /\ get_token(auth_client') = new_token.val.access_token
                                    /\ calls'[c].pc = "checked"
                        ELSE /\ token_endpoint' = token_endpoint
                             /\ auth_client' = auth_client
                             /\ calls'[c].pc = "checked"
       /\ \A c \in Calls :
            (calls[c].pc = "checked" /\ Send(c)) =>
                /\ calls'[c].request[1].bearer_auth = get_token(auth_client)
                /\ auth_client' = auth_client
                /\ token_endpoint' = token_endpoint
       /\ get_token(auth_client') = token_endpoint'.last[1].access_token]_vars

\* a call has refreshed the expired token and sent its request with the new one
C24_Witness ==
    \E c \in Calls :
        /\ calls[c].ensured
        /\ Sent(c)
        /\ token_endpoint.requests = 2
        /\ get_token(auth_client) = 1
        /\ calls[c].request[1].bearer_auth = 1

\* C25: when the stored token is expired and the refresh fails, the call
\* returns an AuthError and the stored token and expiry stay as they were;
\* the stored token changes only in a refresh that succeeded
C25_FailedRefreshKeepsToken ==
    [][/\ \A c \in Calls :
            (Ensuring(c) /\ TokenExpired) =>
                \A new_token \in TokenResponses(auth_client) :
                    (new_token.tag = "Err" /\ EnsureValidTokenWith(c, new_token)) =>
                        /\ auth_client' = auth_client
                        /\ calls'[c].pc = "done"
                        /\ calls'[c].result.tag = "Err"
                        /\ calls'[c].result.kind = "AuthError"
       /\ auth_client' # auth_client =>
            \E c \in Calls :
                /\ Ensuring(c)
                /\ TokenExpired
                /\ \E new_token \in TokenResponses(auth_client) :
                       new_token.tag = "Ok" /\ EnsureValidTokenWith(c, new_token)]_vars

\* a refresh has failed: the call returned the AuthError, the expired token
\* of the beginning is still stored
C25_Witness ==
    \E c \in Calls :
        /\ Done(c)
        /\ calls[c].result.tag = "Err"
        /\ calls[c].result.kind = "AuthError"
        /\ token_endpoint.requests = 2
        /\ get_token(auth_client) = 0
        /\ TokenExpired

\* C26: the stored token, set at time t with lifetime expires_in, is reported
\* expired exactly when the time is later than t + expires_in - 10, where t
\* is the time of the last new / set_token; a token with expires_in <= 10 is
\* expired at every later instant
C26_ExpiryMargin ==
    LET issued == token_endpoint.last[1] IN
    /\ TokenExpired <=> now > issued.at + issued.expires_in - 10
    /\ (issued.expires_in <= 10 /\ now > issued.at) => TokenExpired

\* the token was replaced one second after the client was built and is not
\* expired at that instant
C26_Witness ==
    /\ token_endpoint.requests = 2
    /\ token_endpoint.last[1].at = 1
    /\ get_token(auth_client) = 1
    /\ now = 1
    /\ ~TokenExpired

----------------------------------------------------------------------------
(* The auth mutex *)

\* the call is between auth_client.lock() and its return
Holding(c) == calls[c].pc \in {"locked", "checked", "sent"}

\* the call is blocked inside auth_client.lock()
Waiting(c) == calls[c].pc = "locking"

C29_HolderCanProceed ==
    \A d \in Calls :
        Waiting(d) => (auth_mutex = Unlocked \/ Runnable(auth_mutex))

----------------------------------------------------------------------------
(* Indices beyond the machine word *)

\* C30: an Ok result of parse_a1_cell carries the exact value of the letter
\* run and of the digit run of its input, also when a value exceeds usize
C30_ExactIndices ==
    (Returned("parse_a1_cell") /\ result.tag = "Ok") =>
        result.val = <<LettersValue(LettersOf(a1)), DecimalValue(DigitsOf(a1))>>

----------------------------------------------------------------------------
(* Two callers of one core function on the same arguments *)

\* what the function named by target returns for the arguments
core_call ==
    CASE target = "parse_a1_cell" -> parse_a1_cell(a1, overflow_checks)
      [] target = "col_index_to_a1" -> col_index_to_a1(col_index)
      [] target = "a1_to_grid_range" -> a1_to_grid_range(a1, overflow_checks)
      [] target = "split_sheet_range" -> split_sheet_range(a1)
      [] target = "value_range_to_cells" ->
            value_range_to_cells(sheet_id, sheet_title, value_range, overflow_checks)
      [] target = "value_range_to_hash_cell_map" ->
            value_range_to_hash_cell_map(sheet_id, sheet_title, value_range,
                                         overflow_checks)

\* payloads of the two callers: every range, with and without values
PureValueRanges ==
    [range : {None} \cup {Some(r) : r \in GridRangeStrings},
     major_dimension : {None, Some("COLUMNS")},
     values : {None, Some(GridOf(<<2, 1>>))}]

InitPure ==
    /\ overflow_checks \in BOOLEAN
    /\ pc = "call"
    /\ result = NoResult
    /\ \/ /\ \/ /\ target \in {"parse_a1_cell", "a1_to_grid_range",
                               "split_sheet_range"}
                /\ a1 \in GridRangeStrings
                /\ col_index = 0
             \/ /\ target = "col_index_to_a1"
                /\ a1 = <<>>
                /\ col_index \in ColIndexes
          /\ sheet_id = ""
          /\ sheet_title = ""
          /\ value_range = NoValueRange
       \/ /\ target \in {"value_range_to_cells", "value_range_to_hash_cell_map"}
          /\ a1 = <<>>
          /\ col_index = 0
          /\ sheet_id = "spreadsheet-1"
          /\ sheet_title = "Sheet1"
          /\ value_range \in PureValueRanges
    /\ NoExecute
    /\ other = [pc |-> "call", result |-> NoResult]

\* the second caller's call returns
OtherReturns ==
    /\ other.pc = "call"
    /\ other' = [pc |-> "returned", result |-> core_call]
    /\ UNCHANGED <<overflow_checks, target, pc, a1, col_index, sheet_id,
                   sheet_title, value_range, result, now, auth_client,
                   auth_mutex, calls, token_endpoint>>

NextPure ==
    \/ Next
    \/ NextGrid
    \/ OtherReturns

SpecPure == InitPure /\ [][NextPure]_vars

====
